---- MODULE Spec2Model ----
(***************************************************************************)
(* A model of the dnac client: session establishment (DNAC::new), the      *)
(* transport primitive (DNAC::get), the list operations                    *)
(* (Device::get_device_list, Sites::get_site), the full-collection fetch   *)
(* loops (Device::get_all_devices, Sites::get_all_sites), task polling     *)
(* (DNAC::post, DNAC::poll_task) and tasks that share one session and      *)
(* call DNAC::get_token on it.  The controller is the environment: its     *)
(* answers are drawn from small sets.                                      *)
(***************************************************************************)
EXTENDS Integers, Sequences, FiniteSets, TLC

VARIABLES
    pc,            \* position of the (single) caller in the program
    op,            \* the operation that is running: which fetch, or the poll
    token,         \* DNAC.token; token.token is sent as X-Auth-Token
    inflight,      \* the request that was sent and is not yet answered
    offset,        \* get_all_*: let mut offset
    devices,       \* get_all_*: the accumulated Vec (ids of the items)
    requests,      \* history: page requests issued by the running fetch
    firstFault,    \* history: index of the first answer that was not the
                   \* stable page of its request (0: none so far)
    lastPage,      \* history: the page the last answer decoded to
    prevDevices,   \* history: the accumulated Vec before the last answer
    result,        \* what the finished operation returned to its caller
    N,             \* controller: size of the backing collection
    task_url,      \* poll_task: task_info.url
    task,          \* poll_task: let mut task (the last status response)
    poll,          \* DNAC::post: the poll flag
    polls,         \* history: status requests issued by the running poll
    errlog,        \* the events written at Level::ERROR
    lastAnswer,    \* history: the controller's answer to the last request
    now,           \* the clock, in seconds
    fs,            \* the file system: path -> content of the file
    token_file,    \* DNAC.token_file
    env_token_file,\* the environment variable DNAC_TOKEN_FILE (None: unset)
    loaded,        \* DNAC::new: the token load_token returned
    auth_calls,    \* history: requests sent to the authentication endpoint
    ticks,         \* history: seconds the clock advanced during DNAC::new
    callers        \* the tasks that share the session and call get_token on
                   \* it: each one's position, local token and result

fetchVars == <<offset, devices, requests, firstFault, lastPage, prevDevices, N>>
pollVars == <<task_url, task, poll, polls, errlog>>
sessVars == <<fs, token_file, env_token_file, loaded, auth_calls, ticks, callers>>
vars == <<pc, op, token, inflight, result, lastAnswer, now, fetchVars, pollVars,
          sessVars>>

----------------------------------------------------------------------------
(* Bounds of the model.                                                    *)

\* A fetch is cut off after this many page requests (the code has no cap).
MaxRequests == 5

\* A poll is cut off after this many status requests (the code has no cap).
MaxPolls == 3

\* The controller reports at most this many tasks in one tree.
MaxTasks == 2

\* The clock advances by at most this many seconds during DNAC::new.
MaxTicks == 2

\* The clock's reading when the program starts (seconds since the epoch).
Epoch == 1000

\* The response of a single list request holds at most this many items.
MaxLen == 2

(* Program constants.                                                      *)

\* let limit = 500;
Limit == 500

\* let mut offset = 1;
FirstOffset == 1

\* StatusCode::INTERNAL_SERVER_ERROR
INTERNAL_SERVER_ERROR == 500

\* tokio::time::sleep(std::time::Duration::from_secs(5))
PollDelay == 5

\* token.valid_for() > 60 * 10
MinValidFor == 600

----------------------------------------------------------------------------
(* Rust values.                                                            *)

Ok(v) == [tag |-> "Ok", val |-> v]
Err(e) == [tag |-> "Err", val |-> e]
NoResult == [tag |-> "None", val |-> <<>>]
Unit == <<>>

\* Option<T>
None == <<>>
Some(x) == <<x>>
is_some(o) == Len(o) = 1

\* anyhow::Error values, by what they wrap: the error's kind, its code or
\* message, and the values it carries besides (data)
ApiErrorOf(code) == [kind |-> "ApiError", info |-> code, data |-> <<>>]
ReqwestError(what) == [kind |-> "reqwest", info |-> what, data |-> <<>>]
AnyhowMsg(msg) == [kind |-> "anyhow", info |-> msg, data |-> <<>>]

\* enum ResponseType<T> { Array(Vec<T>), Item(T) }
Array(items) == [variant |-> "Array", items |-> items]
Item(x) == [variant |-> "Item", items |-> <<x>>]

Min(a, b) == IF a < b THEN a ELSE b

----------------------------------------------------------------------------
(* The controller's HTTP answers.  sent = FALSE is a request whose send    *)
(* failed (no answer at all).  A body is the JSON the controller wrote:    *)
(*   "array"    {"response": [ ... ]}                                      *)
(*   "item"     {"response": { ... }}     one object of the asked type     *)
(*   "apierror" {"message": [...], "response": {"errorCode": code, ...}}   *)
(*   "garbage"  anything that decodes as neither                           *)

Body(shape, items, code) == [shape |-> shape, items |-> items, code |-> code]
ArrayBody(items) == Body("array", items, "")
ItemBody(x) == Body("item", <<x>>, "")
ApiErrorBody(code) == Body("apierror", <<>>, code)
GarbageBody == Body("garbage", <<>>, "")

Answer(status, body) == [sent |-> TRUE, status |-> status, body |-> body]
SendFailure == [sent |-> FALSE, status |-> 0, body |-> GarbageBody]
NoAnswer == [sent |-> FALSE, status |-> -1, body |-> GarbageBody]

\* a variant in which a single object decodes as an empty list
DecodeResponse_dropitem(body) ==
    IF body.shape \in {"array", "item"}
    THEN Ok(Array(IF body.shape = "array" THEN body.items ELSE <<>>))
    ELSE Err(ReqwestError("decode"))

\* serde: #[serde(untagged)] enum ResponseType<T> tries Array(Vec<T>) first,
\* then Item(T); a body that is neither fails to decode.
DecodeResponse(body) ==
    IF body.shape = "array" THEN Ok(Array(body.items))
    ELSE IF body.shape = "item" THEN Ok(Item(body.items[1]))
    ELSE Err(ReqwestError("decode"))

\* serde: ApiError needs "message" and a "response" object with errorCode.
DecodeApiError(body) ==
    IF body.shape = "apierror" THEN Ok(body.code)
    ELSE Err(ReqwestError("decode"))

\* DNAC::get, from the answer to its request on: .send().await? ; match
\* data.status() { INTERNAL_SERVER_ERROR => Err(ApiError), _ => data.json() }
get(answer) ==
    IF ~answer.sent THEN Err(ReqwestError("send"))
    ELSE IF answer.status = INTERNAL_SERVER_ERROR
         THEN LET e == DecodeApiError(answer.body)
              IN  IF e.tag = "Ok" THEN Err(ApiErrorOf(e.val)) ELSE e
         ELSE DecodeResponse(answer.body)

\* The request DNAC::get sends: the session token in X-Auth-Token, and the
\* pagination as offset/limit query parameters when one is given.
GetRequest(path, tok, pagination) ==
    [method |-> "GET", path |-> path, token |-> tok, pagination |-> pagination]

\* The request DNAC::post sends.
PostRequest(path, tok) ==
    [method |-> "POST", path |-> path, token |-> tok, pagination |-> None]

NoRequest == [method |-> "none", path |-> <<>>, token |-> "", pagination |-> None]

\* The request DNAC::get_token sends: basic credentials, no X-Auth-Token.
AuthRequest ==
    [method |-> "POST", path |-> <<"dna", "system", "api", "v1", "auth", "token">>,
     token |-> "", pagination |-> None]

\* Pagination::builder().with_offset(offset).with_limit(limit).build()
Pagination(off, lim) == [offset |-> off, limit |-> lim]

----------------------------------------------------------------------------
(* Tokens, the token file and session establishment (DNAC::new).           *)

\* A token string: whether it parses as a JWT, and the expiration claim in
\* it (None: the claims hold no "exp").
Secret(id, jwt, claim_exp) == [id |-> id, jwt |-> jwt, claim_exp |-> claim_exp]

\* struct Token { token: String, exp: Option<u64> }
TokenOf(secret, exp) == [token |-> secret, exp |-> exp]

\* Token::default()
DefaultToken == TokenOf(Secret("", FALSE, None), None)

\* the expiration claims of the tokens found in the token file
CachedExpiries ==
    {Epoch - 1, Epoch, Epoch + 1, Epoch + MinValidFor, Epoch + MinValidFor + 1,
     Epoch + MinValidFor + MaxTicks + 1}

CachedSecrets ==
    {Secret("cached", TRUE, Some(e)) : e \in CachedExpiries}
    \cup {Secret("cached-not-a-jwt", FALSE, None), Secret("cached-no-exp", TRUE, None)}

\* the tokens the authentication endpoint hands out
FreshSecrets ==
    {Secret("fresh", TRUE, Some(Epoch + 3600)), Secret("fresh-not-a-jwt", FALSE, None)}

\* contents of a file: absent, not the JSON of a Token, or the JSON of one
AbsentFile == [kind |-> "absent", token |-> DefaultToken]
MalformedFile == [kind |-> "malformed", token |-> DefaultToken]
TokenFile(t) == [kind |-> "token", token |-> t]

Files == {"token.json", "other.json"}

\* DNAC::load_token: fs::File::open(&self.token_file)?, serde_json::from_reader
load_token(files, path) ==
    IF files[path].kind = "token" THEN Ok(files[path].token)
    ELSE Err(AnyhowMsg(files[path].kind))

\* Token::parse panics (unwrap) unless the string is a JWT with an "exp" claim
CanParse(t) == t.token.jwt /\ is_some(t.token.claim_exp)

\* Token::parse: self.exp = Some(unverified.claims().expiration.unwrap())
parse(t) == [t EXCEPT !.exp = Some(t.token.claim_exp[1])]

\* a variant of Token::valid that accepts an expiry equal to the clock
valid_inclusive(t, clock) ==
    IF is_some(t.exp) THEN t.exp[1] >= clock ELSE FALSE

\* Token::valid, with the clock's reading: exp > now
valid(t, clock) ==
    IF is_some(t.exp) THEN t.exp[1] > clock ELSE FALSE

\* Token::valid_for, with the clock's reading
valid_for(t, clock) ==
    IF is_some(t.exp)
    THEN IF t.exp[1] > clock THEN t.exp[1] - clock ELSE 0
    ELSE 0

\* a panic that unwinds out of DNAC::new
Panic(msg) == [tag |-> "Panic", val |-> msg]

\* the body {"Token": "..."} of the authentication endpoint
TokenBody(secret) == Body("token", <<secret>>, "")

\* .json::<Token>(): "exp" is an Option and may be missing
DecodeToken(body) ==
    IF body.shape = "token" THEN Ok(TokenOf(body.items[1], None))
    ELSE Err(ReqwestError("decode"))

\* the answers of the authentication endpoint
AuthAnswers ==
    {Answer(200, TokenBody(x)) : x \in FreshSecrets}
    \cup {Answer(401, GarbageBody), SendFailure}

\* const SUPPORTED_VERSIONS: [&str; 2] = ["2.3.7.5", "2.3.7.6"]
SUPPORTED_VERSIONS ==
    << <<"2", ".", "3", ".", "7", ".", "5">>, <<"2", ".", "3", ".", "7", ".", "6">> >>

\* a variant in which the version must begin with the allow-listed string
contains_prefix(str, sub) ==
    Len(sub) <= Len(str) /\ SubSeq(str, 1, Len(sub)) = sub

\* str::contains: sub occurs in str as a contiguous run of characters
contains(str, sub) ==
    \E i \in 1..(Len(str) - Len(sub) + 1) : SubSeq(str, i, i + Len(sub) - 1) = sub

\* struct ReleaseSummary, reduced to installed_version
ReleaseSummary(v) == [installed_version |-> v]

InstalledVersions ==
    {<<"2", ".", "3", ".", "7", ".", "5">>,
     <<"2", ".", "3", ".", "7", ".", "6">>,
     <<"2", ".", "3", ".", "7", ".", "5", ".", "1", "2", "3", "4">>,
     <<"1", "2", ".", "3", ".", "7", ".", "6">>,
     <<"2", ".", "3", ".", "5", ".", "3">>,
     <<"2", ".", "3", ".", "7">>,
     <<>>}

\* the answers to GET /dna/intent/api/v1/dnac-release
ReleaseAnswers ==
    {Answer(200, ItemBody(ReleaseSummary(v))) : v \in InstalledVersions}
    \cup {Answer(200, ArrayBody(<<ReleaseSummary(<<"2", ".", "3", ".", "7", ".", "5">>)>>)),
          Answer(200, GarbageBody),
          Answer(INTERNAL_SERVER_ERROR, ApiErrorBody("NCGR10000")),
          SendFailure}

\* ReleaseSummary::get_release_summary, from DNAC::get's result on
get_release_summary(r) ==
    IF r.tag = "Err" THEN r
    ELSE IF r.val.variant = "Item" THEN Ok(r.val.items[1])
    ELSE Err(AnyhowMsg("Unexpected Result!"))

\* DNAC::verify_version, from get_release_summary's result on:
\* SUPPORTED_VERSIONS.into_iter().find(|v| installed_version.contains(v))
verify_version(r) ==
    IF r.tag = "Err" THEN r
    ELSE LET hits == {i \in 1..Len(SUPPORTED_VERSIONS) :
                        contains(r.val.installed_version, SUPPORTED_VERSIONS[i])}
         IN  IF hits = {} THEN Err(AnyhowMsg("Version not supported"))
             ELSE Ok(SUPPORTED_VERSIONS[CHOOSE i \in hits : \A j \in hits : i <= j])

ReleasePath == <<"dna", "intent", "api", "v1", "dnac-release">>

\* the tasks that hold a reference to the session
Callers == {"a", "b"}

\* a task that has not touched the session
IdleCaller == [pc |-> "idle", token |-> DefaultToken, result |-> NoResult]

NoCallers == [c \in Callers |-> IdleCaller]

\* DNAC::get_token is entered: the authentication request is sent
CallGetToken ==
    /\ inflight' = AuthRequest
    /\ lastAnswer' = NoAnswer
    /\ auth_calls' = auth_calls + 1
    /\ pc' = "auth_wait"
    /\ UNCHANGED <<token, result>>

\* dnac.token = token; dnac.verify_version(): the release request is sent
SetTokenAndVerify(t) ==
    /\ token' = t
    /\ inflight' = GetRequest(ReleasePath, t.token.id, None)
    /\ lastAnswer' = NoAnswer
    /\ pc' = "verify_wait"
    /\ UNCHANGED <<result, auth_calls>>

\* DNAC::new up to the first clock reading: load_token, token.parse()
NewLoad ==
    /\ pc = "new"
    /\ LET r == load_token(fs, token_file)
       IN  IF r.tag = "Ok"
           THEN IF CanParse(r.val)
                THEN /\ loaded' = parse(r.val)
                     /\ pc' = "new_valid"
                     /\ UNCHANGED <<token, inflight, result, lastAnswer, auth_calls>>
                ELSE /\ pc' = "panicked"
                     /\ result' = Panic("Token::parse")
                     /\ UNCHANGED <<token, inflight, lastAnswer, auth_calls, loaded>>
           ELSE /\ CallGetToken
                /\ UNCHANGED loaded
    /\ UNCHANGED <<op, now, fs, token_file, env_token_file, ticks, callers, fetchVars,
                   pollVars>>

\* if token.valid() ..
NewValid ==
    /\ pc = "new_valid"
    /\ IF valid(loaded, now)
       THEN /\ pc' = "new_valid_for"
            /\ UNCHANGED <<token, inflight, result, lastAnswer, auth_calls>>
       ELSE CallGetToken
    /\ UNCHANGED <<op, now, fs, token_file, env_token_file, loaded, ticks, callers,
                   fetchVars, pollVars>>

\* a variant in which a token with exactly 10 minutes left is still used
NewValidFor_atleast ==
    /\ pc = "new_valid_for"
    /\ IF valid_for(loaded, now) >= MinValidFor
       THEN SetTokenAndVerify(loaded)
       ELSE CallGetToken
    /\ UNCHANGED <<op, now, fs, token_file, env_token_file, loaded, ticks, callers,
                   fetchVars, pollVars>>

\* .. && token.valid_for() > 60 * 10 { token } else { get_token().await }
NewValidFor ==
    /\ pc = "new_valid_for"
    /\ IF valid_for(loaded, now) > MinValidFor
       THEN SetTokenAndVerify(loaded)
       ELSE CallGetToken
    /\ UNCHANGED <<op, now, fs, token_file, env_token_file, loaded, ticks, callers,
                   fetchVars, pollVars>>

\* a second passes while DNAC::new runs
Tick ==
    /\ pc \in {"new", "new_valid", "new_valid_for", "auth_wait", "verify_wait",
              "token_ready"}
    /\ ticks < MaxTicks
    /\ now' = now + 1
    /\ ticks' = ticks + 1
    /\ UNCHANGED <<pc, op, token, inflight, result, lastAnswer, fs, token_file,
                   env_token_file, loaded, auth_calls, callers, fetchVars, pollVars>>

\* the authentication endpoint answers: the rest of get_token (json, parse,
\* save) and the unwrap of its result in DNAC::new
RecvAuth ==
    /\ pc = "auth_wait"
    /\ \E answer \in AuthAnswers, created \in BOOLEAN :
        LET r == IF ~answer.sent THEN Err(ReqwestError("send"))
                 ELSE DecodeToken(answer.body)
        IN  /\ lastAnswer' = answer
            /\ IF r.tag = "Err"
               THEN /\ pc' = "panicked"
                    /\ result' = Panic("get_token().unwrap()")
                    /\ inflight' = NoRequest
                    /\ UNCHANGED <<token, fs>>
               ELSE IF ~CanParse(r.val)
               THEN /\ pc' = "panicked"
                    /\ result' = Panic("Token::parse")
                    /\ inflight' = NoRequest
                    /\ UNCHANGED <<token, fs>>
               ELSE IF ~is_some(env_token_file)
               THEN /\ pc' = "panicked"
                    /\ result' = Panic("Missing 'DNAC_TOKEN_FILE' env var!")
                    /\ inflight' = NoRequest
                    /\ UNCHANGED <<token, fs>>
               ELSE IF ~created
               THEN /\ pc' = "panicked"
                    /\ result' = Panic("get_token().unwrap()")
                    /\ inflight' = NoRequest
                    /\ UNCHANGED <<token, fs>>
               ELSE /\ fs' = [fs EXCEPT ![env_token_file[1]] = TokenFile(parse(r.val))]
                    /\ token' = parse(r.val)
                    /\ inflight' = GetRequest(ReleasePath, parse(r.val).token.id, None)
                    /\ pc' = "verify_wait"
                    /\ UNCHANGED result
    /\ UNCHANGED <<op, now, token_file, env_token_file, loaded, auth_calls, ticks, callers,
                   fetchVars, pollVars>>

\* a variant in which DNAC::new returns the session whatever the gate said
RecvVersion_lax ==
    /\ pc = "verify_wait"
    /\ \E answer \in ReleaseAnswers :
        /\ lastAnswer' = answer
        /\ result' = Ok(token)
        /\ pc' = "ready"
    /\ inflight' = NoRequest
    /\ UNCHANGED <<op, token, now, fetchVars, pollVars, sessVars>>

\* the release summary arrives: the version gate, and DNAC::new returns
RecvVersion ==
    /\ pc = "verify_wait"
    /\ \E answer \in ReleaseAnswers :
        LET r == verify_version(get_release_summary(get(answer)))
        IN  /\ lastAnswer' = answer
            /\ IF r.tag = "Ok"
               THEN /\ result' = Ok(token)
                    /\ pc' = "ready"
               ELSE /\ result' = r
                    /\ pc' = "new_failed"
    /\ inflight' = NoRequest
    /\ UNCHANGED <<op, token, now, fetchVars, pollVars, sessVars>>

\* the state of the variables the session does not use
IdleFetch ==
    /\ offset = FirstOffset
    /\ devices = <<>>
    /\ requests = 0
    /\ firstFault = 0
    /\ lastPage = <<>>
    /\ prevDevices = <<>>

IdlePoll ==
    /\ task_url = <<>>
    /\ task = Array(<<>>)
    /\ poll = FALSE
    /\ polls = 0
    /\ errlog = <<>>

\* DNAC::new is entered
InitSession ==
    /\ pc = "new"
    /\ op = "DNAC::new"
    /\ token = DefaultToken
    /\ inflight = NoRequest
    /\ result = NoResult
    /\ lastAnswer = NoAnswer
    /\ now = Epoch
    /\ token_file = "token.json"
    /\ env_token_file \in {None, Some("token.json"), Some("other.json")}
    /\ \E content \in {AbsentFile, MalformedFile}
                      \cup {TokenFile(TokenOf(x, e)) : x \in CachedSecrets,
                                                    e \in {None, Some(Epoch + 1)}} :
          fs = [f \in Files |-> IF f = "token.json" THEN content ELSE AbsentFile]
    /\ loaded = DefaultToken
    /\ auth_calls = 0
    /\ ticks = 0
    /\ callers = NoCallers
    /\ N = 0
    /\ IdleFetch
    /\ IdlePoll

NextSession ==
    \/ NewLoad
    \/ NewValid
    \/ NewValidFor
    \/ Tick
    \/ RecvAuth
    \/ RecvVersion

SpecSession == InitSession /\ [][NextSession]_vars

----------------------------------------------------------------------------
(* The methods of Token, called on their own.                              *)

\* a caller asks token.valid()
CallValid ==
    /\ pc = "token_ready"
    /\ op' = "Token::valid"
    /\ result' = Ok(valid(loaded, now))
    /\ pc' = "token_returned"
    /\ UNCHANGED <<token, inflight, lastAnswer, now, fetchVars, pollVars, sessVars>>

\* a caller asks token.valid_for()
CallValidFor ==
    /\ pc = "token_ready"
    /\ op' = "Token::valid_for"
    /\ result' = Ok(valid_for(loaded, now))
    /\ pc' = "token_returned"
    /\ UNCHANGED <<token, inflight, lastAnswer, now, fetchVars, pollVars, sessVars>>

\* a caller asks token.parse()
CallParse ==
    /\ pc = "token_ready"
    /\ op' = "Token::parse"
    /\ IF CanParse(loaded)
       THEN /\ loaded' = parse(loaded)
            /\ UNCHANGED <<pc, result>>
       ELSE /\ pc' = "panicked"
            /\ result' = Panic("Token::parse")
            /\ UNCHANGED loaded
    /\ UNCHANGED <<token, inflight, lastAnswer, now, fs, token_file, env_token_file,
                   auth_calls, ticks, callers, fetchVars, pollVars>>

\* the tokens the methods are called on: as deserialized, parsed or not
TokenInputs ==
    {TokenOf(x, e) : x \in CachedSecrets,
                     e \in {None} \cup {Some(t) : t \in CachedExpiries}}

InitToken ==
    /\ pc = "token_ready"
    /\ op = "none"
    /\ token = DefaultToken
    /\ inflight = NoRequest
    /\ result = NoResult
    /\ lastAnswer = NoAnswer
    /\ now = Epoch
    /\ token_file = "token.json"
    /\ env_token_file = None
    /\ fs = [f \in Files |-> AbsentFile]
    /\ loaded \in TokenInputs
    /\ auth_calls = 0
    /\ ticks = 0
    /\ callers = NoCallers
    /\ N = 0
    /\ IdleFetch
    /\ IdlePoll

NextToken ==
    \/ Tick
    \/ CallValid
    \/ CallValidFor
    \/ CallParse

SpecToken == InitToken /\ [][NextToken]_vars

\* a session as DNAC::new returns it when the token file was absent: the
\* fresh token is in the session and in the file DNAC_TOKEN_FILE names
FreshToken == parse(TokenOf(Secret("fresh", TRUE, Some(Epoch + 3600)), None))

Established ==
    /\ pc = "ready"
    /\ op = "DNAC::new"
    /\ token = FreshToken
    /\ now = Epoch
    /\ token_file = "token.json"
    /\ env_token_file = Some("token.json")
    /\ fs = [f \in Files |-> IF f = "token.json" THEN TokenFile(FreshToken) ELSE AbsentFile]
    /\ loaded = DefaultToken
    /\ auth_calls = 1
    /\ ticks = 0
    /\ callers = NoCallers

----------------------------------------------------------------------------
(* The controller's collection and its pages.  The collection holds N      *)
(* items with pairwise distinct identifiers.  An item (struct Device,      *)
(* struct Site) is reduced to the fields the program reads: its id and,    *)
(* for a site, location and additional_info (None for a device).           *)

Entity(id, location, additional_info) ==
    [id |-> id, location |-> location, additional_info |-> additional_info]

\* an entry of additionalInfo: its "nameSpace" (None: missing or no string)
\* and its "attributes" (None: they do not decode as a Location)
InfoEntry(nameSpace, attributes) == [nameSpace |-> nameSpace, attributes |-> attributes]

\* the i-th item of the controller's collection
CollItem(i) == Entity(1000 + i, None, None)

\* a site as the v2 site API reports it: the location is in additionalInfo
SiteWithInfo(i) ==
    Entity(1000 + i, None,
           Some(<<InfoEntry(Some("System Settings"), None),
                  InfoEntry(Some("Location"), Some("Bern"))>>))

\* a site with an additionalInfo entry that has no "nameSpace"
SiteWithBadInfo(i) == Entity(1000 + i, None, Some(<<InfoEntry(None, None)>>))

\* the page a stable, monotonic controller serves for offset/limit (1-based)
StablePage(off, lim) ==
    LET last == Min(off + lim - 1, N)
        len == IF last >= off THEN last - off + 1 ELSE 0
    IN  [i \in 1..len |-> CollItem(off + i - 1)]

\* the answers of a stable controller: the stable page, as an array, or
\* as one object when the page holds exactly one item
StableAnswers(request) ==
    LET req == request.pagination[1]
        page == StablePage(req.offset, req.limit)
    IN  {Answer(200, ArrayBody(page))}
        \cup (IF Len(page) = 1 THEN {Answer(200, ItemBody(page[1]))} ELSE {})

\* answers of a controller that is not stable, and failures
FaultyAnswers(request) ==
    LET req == request.pagination[1] IN
    \* one item although more exist from this offset on
    (IF req.offset + 1 <= N
        THEN {Answer(200, ArrayBody(<<CollItem(req.offset)>>))} ELSE {})
    \* an off-by-one boundary: the item before the offset, alone
    \cup (IF req.offset >= 2 /\ req.offset - 1 <= N
        THEN {Answer(200, ArrayBody(<<CollItem(req.offset - 1)>>)),
              Answer(200, ItemBody(CollItem(req.offset - 1)))} ELSE {})
    \* the first page again, whatever the offset
    \cup (IF req.offset > 1 /\ N >= 2
        THEN {Answer(200, ArrayBody(StablePage(1, req.limit)))} ELSE {})
    \cup {SendFailure,
          Answer(INTERNAL_SERVER_ERROR, ApiErrorBody("NCGR10008")),
          Answer(INTERNAL_SERVER_ERROR, ApiErrorBody("NCGR10000")),
          Answer(INTERNAL_SERVER_ERROR, GarbageBody),
          Answer(200, GarbageBody),
          Answer(404, GarbageBody),
          Answer(404, ArrayBody(<<>>))}
    \* items that carry additional information
    \cup (IF req.offset <= N
        THEN {Answer(200, ArrayBody(<<SiteWithInfo(req.offset)>>)),
              Answer(200, ArrayBody(<<SiteWithBadInfo(req.offset)>>))} ELSE {})
    \* the last item of the collection, twice in one page
    \cup (IF req.offset = N
        THEN {Answer(200, ArrayBody(<<CollItem(req.offset), CollItem(req.offset)>>))}
        ELSE {})

ControllerAnswers(req) == StableAnswers(req) \cup FaultyAnswers(req)

----------------------------------------------------------------------------
(* The list operations (one page) and the full-collection fetch loops.     *)

FetchOps == {"Device::get_all_devices", "Sites::get_all_sites",
             "dnac::Device::get_all_devices"}

SiteOps == {"Sites::get_all_sites", "Sites::get_site"}

ListPath(o) ==
    IF o \in SiteOps THEN <<"dna", "intent", "api", "v2", "site">>
    ELSE <<"dna", "intent", "api", "v1", "network-device">>

\* Device::get_device_list (both copies), from DNAC::get's result on
get_device_list(r) ==
    IF r.tag = "Ok" THEN Ok(r.val.items) ELSE Err("GeneralError")

\* Site::parse from the i-th entry of additional_info on: nameSpace is
\* unwrapped; the attributes of a "Location" entry are decoded (unwrap) and
\* become the site's location
RECURSIVE Site_parse_from(_, _)
Site_parse_from(site, i) ==
    IF i > Len(site.additional_info[1]) THEN Ok(site)
    ELSE LET entry == site.additional_info[1][i]
         IN  IF ~is_some(entry.nameSpace) THEN Panic("Site::parse")
             ELSE IF entry.nameSpace[1] # "Location" THEN Site_parse_from(site, i + 1)
             ELSE IF ~is_some(entry.attributes) THEN Panic("Site::parse")
             ELSE Site_parse_from([site EXCEPT !.location = entry.attributes], i + 1)

\* Site::parse
Site_parse(site) ==
    IF is_some(site.additional_info) THEN Site_parse_from(site, 1) ELSE Ok(site)

\* a variant in which every ApiError is reported as InvalidSite
get_site_anycode(r) ==
    IF r.tag = "Ok"
    THEN IF \E i \in 1..Len(r.val.items) : Site_parse(r.val.items[i]).tag = "Panic"
         THEN Panic("Site::parse")
         ELSE Ok([i \in 1..Len(r.val.items) |-> Site_parse(r.val.items[i]).val])
    ELSE IF r.val.kind = "ApiError"
         THEN Err("InvalidSite")
         ELSE Err("GeneralError")

\* Sites::get_site, from DNAC::get's result on: every site of the response
\* goes through Site::parse
get_site(r) ==
    IF r.tag = "Ok"
    THEN IF \E i \in 1..Len(r.val.items) : Site_parse(r.val.items[i]).tag = "Panic"
         THEN Panic("Site::parse")
         ELSE Ok([i \in 1..Len(r.val.items) |-> Site_parse(r.val.items[i]).val])
    ELSE IF r.val.kind = "ApiError" /\ r.val.info = "NCGR10008"
         THEN Err("InvalidSite")
         ELSE Err("GeneralError")

get_list(o, r) ==
    IF o \in SiteOps THEN get_site(r) ELSE get_device_list(r)

\* a variant in which a page shorter than the limit ends the loop
IsLastPage_short(current) == Len(current) < Limit

\* a variant in which a one-item page does not end the loop
IsLastPage_empty(current) == Len(current) = 0

\* if current.len() <= 1 { ...; break; }
IsLastPage(current) == Len(current) <= 1

\* a variant in which the one item of the last page is dropped
TailAppend_drop(devs, current) == devs

\* a variant in which the one item of the last page is appended unchecked
TailAppend_nocheck(devs, current) ==
    IF Len(current) = 1 THEN devs \o current ELSE devs

\* if current.len() == 1 { if let None = devices.iter().find(|s| s.id ==
\* current[0].id) { devices.extend(current); } }
TailAppend(devs, current) ==
    IF Len(current) = 1
    THEN IF ~(\E i \in 1..Len(devs) : devs[i].id = current[1].id)
         THEN devs \o current
         ELSE devs
    ELSE devs

\* a variant in which a bulk page's items are checked against the Vec
BulkAppend_dedup(devs, current) ==
    devs \o SelectSeq(current, LAMBDA x : ~(\E i \in 1..Len(devs) : devs[i].id = x.id))

\* devices.extend(current);
BulkAppend(devs, current) == devs \o current

\* a variant in which consecutive pages overlap by one item
NextOffset_overlap(off, lim) == off + lim - 1

\* a variant in which the offset is not advanced
NextOffset_stay(off, lim) == off

\* offset += limit;
NextOffset(off, lim) == off + lim

\* a variant in which a failed page ends the loop with what was accumulated
PageError_partial(devs, e) == Ok(devs)

\* the ? after get_device_list(..).await / get_site(..).await: the loop is
\* left with the list operation's error, and the accumulated Vec is dropped
PageError(devs, e) == Err(e)

\* the caller enters get_all_devices / get_all_sites
StartFetch(o) ==
    /\ pc = "ready"
    /\ pc' = "fetch_loop"
    /\ op' = o
    /\ offset' = FirstOffset
    /\ devices' = <<>>
    /\ requests' = 0
    /\ firstFault' = 0
    /\ lastPage' = <<>>
    /\ prevDevices' = <<>>
    /\ result' = NoResult
    /\ UNCHANGED <<token, inflight, N, lastAnswer, now, pollVars, sessVars>>

\* a variant in which an expired session token is replaced before a page
\* request is sent
SendPage_refresh ==
    /\ pc = "fetch_loop"
    /\ requests < MaxRequests
    /\ token' = IF valid(token, now) THEN token
                ELSE parse(TokenOf(Secret("refreshed", TRUE, Some(now + 3600)), None))
    /\ inflight' = GetRequest(ListPath(op), token'.token.id, Some(Pagination(offset, Limit)))
    /\ lastAnswer' = NoAnswer
    /\ requests' = requests + 1
    /\ pc' = "fetch_wait"
    /\ UNCHANGED <<op, result, offset, devices, firstFault, lastPage,
                   prevDevices, N, now, pollVars, sessVars>>

\* top of the loop: build the Pagination and send the page request
SendPage ==
    /\ pc = "fetch_loop"
    /\ requests < MaxRequests
    /\ inflight' = GetRequest(ListPath(op), token.token.id, Some(Pagination(offset, Limit)))
    /\ lastAnswer' = NoAnswer
    /\ requests' = requests + 1
    /\ pc' = "fetch_wait"
    /\ UNCHANGED <<op, token, result, offset, devices, firstFault, lastPage,
                   prevDevices, N, now, pollVars, sessVars>>

\* the answer arrives: the rest of the loop body
RecvPage ==
    /\ pc = "fetch_wait"
    /\ \E answer \in ControllerAnswers(inflight) :
        LET r == get_list(op, get(answer))
        IN  /\ lastAnswer' = answer
            /\ firstFault' = IF firstFault = 0 /\ answer \notin StableAnswers(inflight)
                             THEN requests ELSE firstFault
            /\ prevDevices' = devices
            /\ IF r.tag = "Panic"
               THEN /\ result' = r
                    /\ pc' = "panicked"
                    /\ lastPage' = <<>>
                    /\ UNCHANGED <<offset, devices>>
               ELSE IF r.tag = "Err"
               THEN /\ result' = PageError(devices, r.val)
                    /\ pc' = "fetch_done"
                    /\ lastPage' = <<>>
                    /\ UNCHANGED <<offset, devices>>
               ELSE /\ lastPage' = r.val
                    /\ IF IsLastPage(r.val)
                       THEN /\ devices' = TailAppend(devices, r.val)
                            /\ result' = Ok(devices')
                            /\ pc' = "fetch_done"
                            /\ UNCHANGED offset
                       ELSE /\ devices' = BulkAppend(devices, r.val)
                            /\ offset' = NextOffset(offset, Limit)
                            /\ pc' = "fetch_loop"
                            /\ UNCHANGED result
    /\ inflight' = NoRequest
    /\ UNCHANGED <<op, token, requests, N, now, pollVars, sessVars>>

\* the sizes of the backing collection a fetch is run against
Sizes ==
    {0, 1, 2, Limit - 1, Limit, Limit + 1, 2 * Limit, 2 * Limit + 1, 1200, 3 * Limit,
     3 * Limit + 1}

InitFetch ==
    /\ Established
    /\ inflight = NoRequest
    /\ result = NoResult
    /\ lastAnswer = NoAnswer
    /\ N \in Sizes
    /\ IdleFetch
    /\ IdlePoll

NextFetch ==
    \/ \E o \in FetchOps : StartFetch(o)
    \/ SendPage
    \/ RecvPage

SpecFetch == InitFetch /\ [][NextFetch]_vars

----------------------------------------------------------------------------
(* The list operations called on their own (one request, one response).    *)

ListOps == {"Device::get_device_list", "Sites::get_site",
            "dnac::Device::get_device_list"}

\* the items the controller puts into the response of a list operation
ListItems ==
    {CollItem(1), CollItem(2), SiteWithInfo(3), SiteWithBadInfo(4),
     Entity(1005, Some("Basel"), Some(<<InfoEntry(Some("Location"), None)>>)),
     Entity(1006, Some("Basel"), Some(<<InfoEntry(Some("System Settings"), None)>>))}

\* the controller's answers to a list request: {"response": <one object>},
\* {"response": [ <objects> ]} of every length up to MaxLen, and failures
ListAnswers ==
    {Answer(200, ItemBody(x)) : x \in ListItems}
    \cup {Answer(200, ArrayBody(xs)) : xs \in UNION {[1..n -> ListItems] : n \in 0..MaxLen}}
    \cup {Answer(200, GarbageBody),
          Answer(INTERNAL_SERVER_ERROR, ApiErrorBody("NCGR10008")),
          Answer(INTERNAL_SERVER_ERROR, ApiErrorBody("NCGR10000")),
          Answer(INTERNAL_SERVER_ERROR, GarbageBody),
          Answer(404, ApiErrorBody("NCGR10008")),
          SendFailure}

\* the caller enters get_device_list / get_site: the request is sent
StartList(o, pagination) ==
    /\ pc = "ready"
    /\ pc' = "list_wait"
    /\ op' = o
    /\ inflight' = GetRequest(ListPath(o), token.token.id, pagination)
    /\ lastAnswer' = NoAnswer
    /\ result' = NoResult
    /\ UNCHANGED <<token, now, fetchVars, pollVars, sessVars>>

\* the answer arrives: the match on DNAC::get's result, and the return
RecvList ==
    /\ pc = "list_wait"
    /\ \E answer \in ListAnswers :
        LET r == get_list(op, get(answer))
        IN  /\ lastAnswer' = answer
            /\ result' = r
            /\ pc' = IF r.tag = "Panic" THEN "panicked" ELSE "list_done"
            /\ lastPage' = IF r.tag = "Ok" THEN r.val ELSE <<>>
    /\ inflight' = NoRequest
    /\ UNCHANGED <<op, token, now, offset, devices, requests, firstFault,
                   prevDevices, N, pollVars, sessVars>>

InitList ==
    /\ Established
    /\ inflight = NoRequest
    /\ result = NoResult
    /\ lastAnswer = NoAnswer
    /\ N = 0
    /\ IdleFetch
    /\ IdlePoll

NextList ==
    \/ \E o \in ListOps, pagination \in {None, Some(Pagination(FirstOffset, Limit))} :
          StartList(o, pagination)
    \/ RecvList

SpecList == InitList /\ [][NextList]_vars

----------------------------------------------------------------------------
(* DNAC::post and DNAC::poll_task.                                         *)

\* struct Task, reduced to the two fields poll_task reads
Task(end_time, is_error) == [end_time |-> end_time, is_error |-> is_error]
Tasks == {Task(e, b) : e \in {None, Some(1732811427)}, b \in BOOLEAN}

\* the task lists the status endpoint can report
Trees == UNION {[1..n -> Tasks] : n \in 0..MaxTasks}

\* struct TaskInfo { task_id, url }
TaskInfo == [task_id |-> "0193739c", url |-> <<"api", "v1", "task", "0193739c">>]

\* the controller's answers to the POST of a write operation
PostAnswers ==
    {Answer(202, ItemBody(TaskInfo)),
     Answer(202, ArrayBody(<<TaskInfo>>)),
     Answer(200, GarbageBody),
     Answer(404, GarbageBody),
     Answer(INTERNAL_SERVER_ERROR, ApiErrorBody("NCGR10000")),
     Answer(INTERNAL_SERVER_ERROR, GarbageBody),
     SendFailure}

\* the controller's answers to a status request
StatusAnswers ==
    {Answer(200, ArrayBody(t)) : t \in Trees}
    \cup {Answer(200, ItemBody(t)) : t \in Tasks}
    \cup {Answer(200, GarbageBody),
          Answer(404, GarbageBody),
          Answer(404, ArrayBody(<<Task(Some(1732811427), FALSE)>>)),
          Answer(INTERNAL_SERVER_ERROR, ApiErrorBody("NCGR10000")),
          Answer(INTERNAL_SERVER_ERROR, GarbageBody),
          SendFailure}

\* a variant in which one task with an end time is enough
all_end_time_is_some_any(inner_tasks) ==
    \E i \in 1..Len(inner_tasks) : is_some(inner_tasks[i].end_time)

\* a variant in which an empty list is not terminal
all_end_time_is_some_nonempty(inner_tasks) ==
    /\ Len(inner_tasks) >= 1
    /\ \A i \in 1..Len(inner_tasks) : is_some(inner_tasks[i].end_time)

\* inner_tasks.iter().all(|t| t.end_time.is_some())
all_end_time_is_some(inner_tasks) ==
    \A i \in 1..Len(inner_tasks) : is_some(inner_tasks[i].end_time)

\* inner_tasks.iter().any(|t| t.is_error)
any_is_error(inner_tasks) ==
    \E i \in 1..Len(inner_tasks) : inner_tasks[i].is_error

\* inner_tasks.iter().for_each(|t| if t.is_error { event!(Level::ERROR,
\* "{task:?}") }): the whole response is written once per errored task
RECURSIVE LogErrored(_, _, _)
LogErrored(log, t, i) ==
    IF i > Len(t.items) THEN log
    ELSE LogErrored(IF t.items[i].is_error THEN Append(log, t) ELSE log, t, i + 1)

\* a variant in which the error carries the observed tree
TaskFailedError_carry(t) == [kind |-> "anyhow", info |-> "Task failed", data |-> t.items]

\* return Err(anyhow!("Task failed"))
TaskFailedError(t) == AnyhowMsg("Task failed")

\* a variant in which a status request's failure is replaced by another error
Try_wrap(r) == Err(AnyhowMsg("status request failed"))

\* the ? after self.get::<Task>(..).await: the failure is returned as it is
Try(r) == r

\* a variant in which one task is judged like a list of one task
IsTree_any(t) == TRUE

\* match task { ResponseType::Array(ref inner_tasks) => .., _ => .. }
IsTree(t) == t.variant = "Array"

\* the caller enters DNAC::post: the POST is sent
StartPost(p) ==
    /\ pc = "ready"
    /\ pc' = "post_wait"
    /\ op' = "DNAC::post"
    /\ poll' = p
    /\ inflight' = PostRequest(ListPath("Device::add_device"), token.token.id)
    /\ lastAnswer' = NoAnswer
    /\ result' = NoResult
    /\ task_url' = <<>>
    /\ task' = Array(<<>>)
    /\ polls' = 0
    /\ errlog' = <<>>
    /\ UNCHANGED <<token, now, fetchVars, sessVars>>

\* the answer to the POST arrives; with poll set and a TaskInfo in it,
\* poll_task is entered and its first status request is sent
RecvPost ==
    /\ pc = "post_wait"
    /\ \E answer \in PostAnswers :
        LET r == IF ~answer.sent THEN Err(ReqwestError("send"))
                 ELSE IF answer.status = INTERNAL_SERVER_ERROR
                      THEN LET e == DecodeApiError(answer.body)
                           IN  IF e.tag = "Ok" THEN Err(ApiErrorOf(e.val)) ELSE e
                      ELSE IF poll THEN DecodeResponse(answer.body)
                      ELSE Ok(Unit)
        IN  IF r.tag = "Ok" /\ poll /\ r.val.variant = "Item"
            THEN /\ task_url' = r.val.items[1].url \o <<"tree">>
                 /\ inflight' = GetRequest(task_url', token.token.id, None)
                 /\ polls' = 1
                 /\ lastAnswer' = NoAnswer
                 /\ pc' = "poll_first"
                 /\ UNCHANGED result
            ELSE /\ result' = IF r.tag = "Err" THEN r
                              ELSE IF poll THEN Err(AnyhowMsg("Unexpected response"))
                              ELSE Ok(Unit)
                 /\ lastAnswer' = answer
                 /\ inflight' = NoRequest
                 /\ pc' = "post_done"
                 /\ UNCHANGED <<task_url, polls>>
    /\ UNCHANGED <<op, token, now, poll, task, errlog, fetchVars, sessVars>>

\* the answer to a status request arrives: to the first one (let mut task =
\* ..), which is judged at once, or to a later one (task = ..), which is
\* judged after the sleep
RecvStatus ==
    /\ pc \in {"poll_first", "poll_wait"}
    /\ \E answer \in StatusAnswers :
        LET r == get(answer)
        IN  /\ lastAnswer' = answer
            /\ IF r.tag = "Err"
               THEN /\ result' = Try(r)
                    /\ pc' = "post_done"
                    /\ UNCHANGED task
               ELSE /\ task' = r.val
                    /\ pc' = IF pc = "poll_first" THEN "poll_eval" ELSE "poll_sleep"
                    /\ UNCHANGED result
    /\ inflight' = NoRequest
    /\ UNCHANGED <<op, token, now, task_url, poll, polls, errlog, fetchVars,
                   sessVars>>

\* tokio::time::sleep(Duration::from_secs(5)) ends; back to the loop's top
WakeUp ==
    /\ pc = "poll_sleep"
    /\ now' = now + PollDelay
    /\ pc' = "poll_eval"
    /\ UNCHANGED <<op, token, inflight, result, lastAnswer, fetchVars, pollVars,
                   sessVars>>

\* loop top, a list whose tasks all have an end time: Err or break
EvalTerminal ==
    /\ pc = "poll_eval"
    /\ IsTree(task)
    /\ all_end_time_is_some(task.items)
    /\ IF any_is_error(task.items)
       THEN /\ errlog' = LogErrored(errlog, task, 1)
            /\ result' = Err(TaskFailedError(task))
       ELSE /\ result' = Ok(Unit)
            /\ UNCHANGED errlog
    /\ pc' = "post_done"
    /\ UNCHANGED <<op, token, inflight, lastAnswer, now, task_url, task, poll,
                   polls, fetchVars, sessVars>>

\* a variant in which the poller gives up on the second unfinished tree
EvalRunning_giveup ==
    /\ pc = "poll_eval"
    /\ IsTree(task)
    /\ ~all_end_time_is_some(task.items)
    /\ polls < MaxPolls
    /\ IF polls < 2
       THEN /\ inflight' = GetRequest(task_url, token.token.id, None)
            /\ lastAnswer' = NoAnswer
            /\ polls' = polls + 1
            /\ pc' = "poll_wait"
            /\ UNCHANGED result
       ELSE /\ result' = Err(AnyhowMsg("Task timed out"))
            /\ pc' = "post_done"
            /\ UNCHANGED <<inflight, lastAnswer, polls>>
    /\ UNCHANGED <<op, token, now, task_url, task, poll, errlog, fetchVars,
                   sessVars>>

\* loop top, a list with a task that has no end time: the next status request
EvalRunning ==
    /\ pc = "poll_eval"
    /\ IsTree(task)
    /\ ~all_end_time_is_some(task.items)
    /\ polls < MaxPolls
    /\ inflight' = GetRequest(task_url, token.token.id, None)
    /\ lastAnswer' = NoAnswer
    /\ polls' = polls + 1
    /\ pc' = "poll_wait"
    /\ UNCHANGED <<op, token, result, now, task_url, task, poll, errlog, fetchVars,
                   sessVars>>

\* loop top, anything but a list: Err(anyhow!("Unexpected response"))
EvalUnexpected ==
    /\ pc = "poll_eval"
    /\ ~IsTree(task)
    /\ result' = Err(AnyhowMsg("Unexpected response"))
    /\ pc' = "post_done"
    /\ UNCHANGED <<op, token, inflight, lastAnswer, now, fetchVars, pollVars,
                   sessVars>>

InitPoll ==
    /\ Established
    /\ inflight = NoRequest
    /\ result = NoResult
    /\ lastAnswer = NoAnswer
    /\ N = 0
    /\ IdleFetch
    /\ IdlePoll

NextPoll ==
    \/ \E p \in BOOLEAN : StartPost(p)
    \/ RecvPost
    \/ RecvStatus
    \/ WakeUp
    \/ EvalTerminal
    \/ EvalRunning
    \/ EvalUnexpected

SpecPoll == InitPoll /\ [][NextPoll]_vars

\* the runtime keeps driving the future and every request is answered
SpecPollFair == SpecPoll /\ WF_vars(NextPoll)

----------------------------------------------------------------------------
(* Tasks that share one session (&DNAC) and refresh its token: each looks  *)
(* at dnac.token and, when it is no longer valid, calls DNAC::get_token.   *)
(* get_token takes &self and holds no lock; Token::save is File::create    *)
(* (which truncates) followed by serde_json::to_writer.                    *)

\* the tokens the authentication endpoint hands out after the first one
RefreshSecrets ==
    {Secret("fresh-2", TRUE, Some(Epoch + 7200)),
     Secret("fresh-3", TRUE, Some(Epoch + 7201)),
     Secret("fresh-not-a-jwt", FALSE, None)}

RefreshAnswers ==
    {Answer(200, TokenBody(x)) : x \in RefreshSecrets} \cup {SendFailure}

\* a file that File::create has just truncated: empty, so no JSON
TruncatedFile == MalformedFile

CallerAt(c, where) == callers[c].pc = where

\* the session's token runs out while the session is in use
Expire ==
    /\ pc = "ready"
    /\ now < token.exp[1]
    /\ now' \in {token.exp[1] - 1, token.exp[1]}
    /\ now' > now
    /\ UNCHANGED <<pc, op, token, inflight, result, lastAnswer, fetchVars, pollVars,
                   sessVars>>

\* a task finds dnac.token valid and uses it
UseToken(c) ==
    /\ pc = "ready" /\ CallerAt(c, "idle")
    /\ valid(token, now)
    /\ callers' = [callers EXCEPT ![c] = [pc |-> "returned", token |-> token,
                                          result |-> Ok(token)]]
    /\ UNCHANGED <<pc, op, token, inflight, result, lastAnswer, now, fetchVars,
                   pollVars, fs, token_file, env_token_file, loaded, auth_calls, ticks>>

\* a task finds dnac.token no longer valid and enters get_token: the
\* authentication request is sent
CallerGetToken(c) ==
    /\ pc = "ready" /\ CallerAt(c, "idle")
    /\ ~valid(token, now)
    /\ callers' = [callers EXCEPT ![c].pc = "auth_wait"]
    /\ auth_calls' = auth_calls + 1
    /\ UNCHANGED <<pc, op, token, inflight, result, lastAnswer, now, fetchVars,
                   pollVars, fs, token_file, env_token_file, loaded, ticks>>

\* the authentication endpoint answers the task's request: json, parse
CallerRecvAuth(c) ==
    /\ CallerAt(c, "auth_wait")
    /\ \E answer \in RefreshAnswers :
        LET r == IF ~answer.sent THEN Err(ReqwestError("send"))
                 ELSE DecodeToken(answer.body)
        IN  callers' = [callers EXCEPT ![c] =
                IF r.tag = "Err"
                THEN [pc |-> "returned", token |-> DefaultToken, result |-> r]
                ELSE IF ~CanParse(r.val)
                THEN [pc |-> "panicked", token |-> r.val, result |-> Panic("Token::parse")]
                ELSE IF ~is_some(env_token_file)
                THEN [pc |-> "panicked", token |-> parse(r.val),
                      result |-> Panic("Missing 'DNAC_TOKEN_FILE' env var!")]
                ELSE [pc |-> "save_create", token |-> parse(r.val), result |-> NoResult]]
    /\ UNCHANGED <<pc, op, token, inflight, result, lastAnswer, now, fetchVars,
                   pollVars, fs, token_file, env_token_file, loaded, auth_calls, ticks>>

\* Token::save: fs::File::create(token_file)? truncates the file
CallerCreate(c) ==
    /\ CallerAt(c, "save_create")
    /\ \E created \in BOOLEAN :
        IF created
        THEN /\ fs' = [fs EXCEPT ![env_token_file[1]] = TruncatedFile]
             /\ callers' = [callers EXCEPT ![c].pc = "save_write"]
        ELSE /\ callers' = [callers EXCEPT ![c].pc = "returned",
                                           ![c].result = Err(AnyhowMsg("io"))]
             /\ UNCHANGED fs
    /\ UNCHANGED <<pc, op, token, inflight, result, lastAnswer, now, fetchVars,
                   pollVars, token_file, env_token_file, loaded, auth_calls, ticks>>

\* Token::save: serde_json::to_writer(file, self)?, and get_token returns
\* Ok(token).  The task writes from the start of the file: onto a file
\* another task has written since, the bytes of the two tokens overlay, and
\* what is left is this task's token or no JSON, by the tokens' lengths.
CallerWrite(c) ==
    /\ CallerAt(c, "save_write")
    /\ \E content \in IF fs[env_token_file[1]] = TruncatedFile
                       THEN {TokenFile(callers[c].token)}
                       ELSE {TokenFile(callers[c].token), MalformedFile} :
          fs' = [fs EXCEPT ![env_token_file[1]] = content]
    /\ callers' = [callers EXCEPT ![c].pc = "returned",
                                  ![c].result = Ok(callers[c].token)]
    /\ UNCHANGED <<pc, op, token, inflight, result, lastAnswer, now, fetchVars,
                   pollVars, token_file, env_token_file, loaded, auth_calls, ticks>>

InitRefresh ==
    /\ Established
    /\ inflight = NoRequest
    /\ result = Ok(token)
    /\ lastAnswer = NoAnswer
    /\ N = 0
    /\ IdleFetch
    /\ IdlePoll

NextRefresh ==
    \/ Expire
    \/ \E c \in Callers : UseToken(c)
    \/ \E c \in Callers : CallerGetToken(c)
    \/ \E c \in Callers : CallerRecvAuth(c)
    \/ \E c \in Callers : CallerCreate(c)
    \/ \E c \in Callers : CallerWrite(c)

SpecRefresh == InitRefresh /\ [][NextRefresh]_vars

----------------------------------------------------------------------------
(* The client as a whole: DNAC::new, and on the session it returns one     *)
(* resource operation (a full-collection fetch or a write with polling).   *)

\* the controller's collection as the session finds it
Populate(n) ==
    /\ pc = "ready" /\ op = "DNAC::new" /\ N = 0
    /\ N' = n
    /\ UNCHANGED <<pc, op, token, inflight, result, lastAnswer, now, offset, devices,
                   requests, firstFault, lastPage, prevDevices, pollVars, sessVars>>

Init == InitSession

Next ==
    \/ \E n \in {2, Limit + 1} : Populate(n)
    \/ NextSession
    \/ NextFetch
    \/ NextPoll

Spec == Init /\ [][Next]_vars

----------------------------------------------------------------------------
(* An established session in use while its token runs out: the resource    *)
(* operations on a session whose token expires at some point.              *)

\* the clock reaches the expiry of the session's token
Elapse ==
    /\ pc \notin {"ready", "fetch_done", "list_done", "post_done", "panicked"}
    /\ now < token.exp[1]
    /\ now' = token.exp[1]
    /\ UNCHANGED <<pc, op, token, inflight, result, lastAnswer, fetchVars, pollVars,
                   sessVars>>

InitUse ==
    /\ Established
    /\ inflight = NoRequest
    /\ result = NoResult
    /\ lastAnswer = NoAnswer
    /\ N \in {2, Limit + 1}
    /\ IdleFetch
    /\ IdlePoll

NextUse ==
    \/ Elapse
    \/ NextFetch
    \/ NextList
    \/ NextPoll

SpecUse == InitUse /\ [][NextUse]_vars

----------------------------------------------------------------------------
(* Claims about the full-collection fetch (checked under SpecFetch).       *)

\* the whole backing collection, in the controller's order
AllItems == [i \in 1..N |-> CollItem(i)]

\* the identifiers of the items of a sequence
ItemIds(s) == {s[i].id : i \in 1..Len(s)}

CeilDiv(a, b) == (a + b - 1) \div b

FetchReturned == pc = "fetch_done"

\* every answer of the running fetch was the stable page of its request
StableSoFar == firstFault = 0

C1_Sizes == {0, 1, Limit - 1, Limit, Limit + 1, 3 * Limit}

\* C1: against a stable, monotonic controller holding N items with distinct
\* identifiers, N in {0, 1, L-1, L, L+1, 3L}, the full-collection fetch
\* returns Ok with exactly those N items, each identifier exactly once.
C1_FetchAllExact ==
    (FetchReturned /\ StableSoFar /\ N \in C1_Sizes)
        => /\ result = Ok(AllItems)
           /\ Len(result.val) = N
           /\ Cardinality(ItemIds(result.val)) = N

\* a stable fetch of L+1 items has returned: the last page held one new item
C1_Witness ==
    /\ FetchReturned /\ StableSoFar /\ N = Limit + 1
    /\ Len(lastPage) = 1
    /\ result.tag = "Ok" /\ Len(result.val) = Limit + 1

\* C2: against a stable, monotonic controller holding N items the fetch
\* loop issues at most ceil(N/L) + 1 page requests, and has left the loop
\* once that many were answered.
C2_RequestBound ==
    StableSoFar
        => /\ requests <= CeilDiv(N, Limit) + 1
           /\ (requests = CeilDiv(N, Limit) + 1 => pc # "fetch_loop")

\* a stable fetch of 3L items has returned after exactly ceil(N/L) + 1 requests
C2_Witness ==
    /\ FetchReturned /\ StableSoFar /\ N = 3 * Limit
    /\ requests = CeilDiv(N, Limit) + 1

\* C3 as stated: a stable 1200-item collection with page size 500 is fetched
\* with exactly 3 page requests and yields 1200 distinct items.
C3_Original ==
    (FetchReturned /\ StableSoFar /\ N = 1200 /\ Limit = 500)
        => /\ requests = 3
           /\ result = Ok(AllItems)
           /\ Cardinality(ItemIds(result.val)) = 1200

\* C3 as amended: a stable 1200-item collection with page size 500 is
\* fetched with exactly 4 page requests (500, 500, 200 and an empty page:
\* the 200-item page has more than one item, so the loop asks again) and
\* yields 1200 items with distinct identifiers.
C3_FourRequests ==
    (FetchReturned /\ StableSoFar /\ N = 1200 /\ Limit = 500)
        => /\ requests = 4
           /\ lastPage = <<>>
           /\ result = Ok(AllItems)
           /\ Len(result.val) = 1200
           /\ Cardinality(ItemIds(result.val)) = 1200

\* the stable fetch of 1200 items has returned
C3_Witness ==
    /\ FetchReturned /\ StableSoFar /\ N = 1200 /\ Limit = 500
    /\ offset = 1501
    /\ result.tag = "Ok" /\ Len(result.val) = 1200

\* the last page held exactly one item whose identifier was accumulated before
TailDuplicate ==
    /\ FetchReturned /\ result.tag = "Ok"
    /\ Len(lastPage) = 1
    /\ lastPage[1].id \in ItemIds(prevDevices)

\* C4: when the final page holds exactly one item whose identifier was
\* already accumulated, the item is not appended again: the result is the
\* Vec accumulated before that page, and when the earlier (stable) pages
\* delivered all N items the result holds exactly N distinct items.
C4_IdempotentTail ==
    TailDuplicate
        => /\ result.val = prevDevices
           /\ Cardinality({i \in 1..Len(result.val) : result.val[i].id = lastPage[1].id}) = 1
           /\ (firstFault = requests /\ Len(prevDevices) = N)
                => /\ result.val = AllItems
                   /\ Cardinality(ItemIds(result.val)) = N

\* L items came in one stable page, then the boundary item came back alone
C4_Witness ==
    /\ TailDuplicate
    /\ N = Limit /\ firstFault = 2 /\ requests = 2
    /\ lastPage = <<CollItem(Limit)>>
    /\ Len(result.val) = Limit

\* the last page request failed: DNAC::get returned an error for it
PageFailed ==
    /\ op \in FetchOps /\ lastAnswer # NoAnswer
    /\ get(lastAnswer).tag = "Err"

\* the last page request was answered with a page that decoded
PageDecoded ==
    /\ op \in FetchOps /\ lastAnswer # NoAnswer
    /\ get(lastAnswer).tag = "Ok"

\* C18: when a page request fails the fetch stops at once and returns an
\* error, without the items accumulated so far; a fetch returns Ok only from
\* a page of at most one item, and goes on to the next page only from a page
\* of more than one item.
C18_PageFailureEndsFetch ==
    /\ PageFailed
         => /\ pc = "fetch_done" /\ inflight = NoRequest
            /\ result.tag = "Err"
            /\ result.val \in {"GeneralError", "InvalidSite"}
    /\ (FetchReturned /\ result.tag = "Ok")
         => (PageDecoded /\ Len(get(lastAnswer).val.items) <= 1)
    /\ (pc = "fetch_loop" /\ requests >= 1)
         => (PageDecoded /\ Len(get(lastAnswer).val.items) > 1)

\* two pages of 500 items were accumulated, then the third request failed
C18_Witness ==
    /\ PageFailed /\ FetchReturned
    /\ requests = 3 /\ Len(devices) = 2 * Limit
    /\ result = Err("GeneralError")

----------------------------------------------------------------------------
(* Claims about task polling (checked under SpecPoll).                     *)

\* poll_task has returned (through DNAC::post) after at least one status request
PollReturned == pc = "post_done" /\ op = "DNAC::post" /\ poll /\ polls >= 1

\* the status response that was polled last, as DNAC::get decoded it
LastStatus == get(lastAnswer)

LastIsTree ==
    lastAnswer # NoAnswer /\ LastStatus.tag = "Ok" /\ LastStatus.val.variant = "Array"

LastIsSingleTask ==
    lastAnswer # NoAnswer /\ LastStatus.tag = "Ok" /\ LastStatus.val.variant = "Item"

\* every task of the list has an end time
TreeTerminal(tasks) == \A i \in DOMAIN tasks : tasks[i].end_time # None

\* some task of the list is marked as an error
TreeErrored(tasks) == \E i \in DOMAIN tasks : tasks[i].is_error = TRUE

Succeeded == result.tag = "Ok"

TaskFailed ==
    result.tag = "Err" /\ result.val.kind = "anyhow" /\ result.val.info = "Task failed"

\* C5: poll_task returns success exactly when the last polled task tree has
\* an end time on every task and no errored task, returns the task failure
\* exactly when every task has an end time and some task is errored, and
\* returns neither from a tree in which a task has no end time.
C5_TerminalDetection ==
    PollReturned
        => /\ Succeeded <=> (LastIsTree /\ TreeTerminal(LastStatus.val.items)
                                        /\ ~TreeErrored(LastStatus.val.items))
           /\ TaskFailed <=> (LastIsTree /\ TreeTerminal(LastStatus.val.items)
                                         /\ TreeErrored(LastStatus.val.items))
           /\ (LastIsTree /\ ~TreeTerminal(LastStatus.val.items))
                => (~Succeeded /\ ~TaskFailed)

\* a second poll found a two-task tree, ended, with one errored task
C5_Witness ==
    /\ PollReturned /\ polls = 2 /\ TaskFailed
    /\ LastIsTree /\ Len(LastStatus.val.items) = 2
    /\ ~LastStatus.val.items[1].is_error /\ LastStatus.val.items[2].is_error

\* C6 as stated: a status response that holds one single task is judged like
\* a one-task tree (success when it has an end time and is no error, the task
\* failure when it has an end time and is an error).
C6_Original ==
    (PollReturned /\ LastIsSingleTask)
        => /\ (TreeTerminal(LastStatus.val.items) /\ ~TreeErrored(LastStatus.val.items))
                => Succeeded
           /\ (TreeTerminal(LastStatus.val.items) /\ TreeErrored(LastStatus.val.items))
                => TaskFailed

\* C6 as amended: a status response that holds one single task instead of a
\* list is rejected whatever the task says: polling issues no further status
\* request and returns the failure "Unexpected response".
C6_SingleTaskRejected ==
    /\ (op = "DNAC::post" /\ task.variant = "Item")
         => (pc \in {"poll_eval", "poll_sleep", "post_done"} /\ inflight = NoRequest)
    /\ (PollReturned /\ LastIsSingleTask)
         => result = Err(AnyhowMsg("Unexpected response"))

\* polling returned on a single task that had ended without an error
C6_Witness ==
    /\ PollReturned /\ LastIsSingleTask
    /\ TreeTerminal(LastStatus.val.items) /\ ~TreeErrored(LastStatus.val.items)
    /\ result.tag = "Err"

StatusRequestFailed ==
    /\ op = "DNAC::post" /\ polls >= 1
    /\ lastAnswer # NoAnswer /\ LastStatus.tag = "Err"

\* C8: when a status request fails, polling stops at once and returns that
\* very failure: no request is in flight or issued after it, and the result
\* is neither success nor another error.
C8_TransportFailurePropagates ==
    StatusRequestFailed
        => /\ pc = "post_done"
           /\ inflight = NoRequest
           /\ result = LastStatus

\* the second status request got a server error with code NCGR10000
C8_Witness ==
    /\ StatusRequestFailed /\ polls = 2
    /\ result = Err(ApiErrorOf("NCGR10000"))

----------------------------------------------------------------------------
(* Claims about the session token.                                         *)

\* DNAC::new ended without a session and before the version gate
EstablishFailed == pc = "panicked" /\ op = "DNAC::new"

\* the authentication endpoint was called and gave no token
AuthCallFailed ==
    /\ auth_calls >= 1
    /\ lastAnswer # NoAnswer
    /\ (~lastAnswer.sent \/ lastAnswer.body.shape # "token")

\* the token file holds no token that can be loaded and used
CachedUnusable ==
    \/ fs[token_file].kind # "token"
    \/ ~CanParse(fs[token_file].token)
    \/ valid_for(parse(fs[token_file].token), now) <= MinValidFor

\* C9 as stated: establishing the session token fails only if the cached
\* token is unusable or unloadable and the authentication call fails; a
\* token file that loads but holds no parsable expiry leads to an
\* authentication call.
C9_Original ==
    /\ EstablishFailed => (CachedUnusable /\ AuthCallFailed)
    /\ (op = "DNAC::new" /\ pc # "new" /\ fs[token_file].kind = "token"
            /\ ~CanParse(fs[token_file].token))
         => auth_calls >= 1

\* C10: Token::valid is true when the expiry is one second or more after the
\* clock, false when it is equal to or before the clock, and false when the
\* token has no parsed expiry.
C10_TokenValid ==
    (pc = "token_returned" /\ op = "Token::valid")
        => /\ (loaded.exp # None /\ loaded.exp[1] >= now + 1) => result = Ok(TRUE)
           /\ (loaded.exp # None /\ loaded.exp[1] <= now) => result = Ok(FALSE)
           /\ loaded.exp = None => result = Ok(FALSE)

\* valid() was asked of a token that expires one second after the clock
C10_Witness ==
    /\ pc = "token_returned" /\ op = "Token::valid"
    /\ loaded.exp = Some(now + 1)
    /\ result = Ok(TRUE)

\* the token file held, when DNAC::new was entered, no token that can be
\* loaded, parsed and used (one valid for more than 10 minutes)
CachedUnusableAtStart ==
    \/ fs[token_file].kind # "token"
    \/ ~CanParse(fs[token_file].token)
    \/ valid_for(parse(fs[token_file].token), Epoch) <= MinValidFor

\* DNAC::new is past its choice between the loaded token and get_token
PastTokenChoice ==
    op = "DNAC::new" /\ pc \notin {"new", "new_valid", "new_valid_for"}

\* the authentication call of DNAC::new was answered last, and gave no token
NewAuthCallFailed ==
    op = "DNAC::new" /\ pc \notin {"ready", "new_failed"} /\ AuthCallFailed

\* C11 as stated: when session establishment finds no usable cached token it
\* issues the authentication call exactly once; when that call fails,
\* establishment fails at once, without a second authentication attempt.
C11_Original ==
    /\ (PastTokenChoice /\ CachedUnusableAtStart) => auth_calls = 1
    /\ NewAuthCallFailed
         => (EstablishFailed /\ auth_calls = 1 /\ inflight = NoRequest)

\* C11, the part the program keeps: DNAC::new never issues a second
\* authentication call, a failed call ends it at once, and a token file that
\* is absent, not a Token, or holds a parsed token the validity policy
\* rejects leads to exactly one call.
C11_NoRetry ==
    /\ op = "DNAC::new" => auth_calls <= 1
    /\ NewAuthCallFailed
         => (EstablishFailed /\ auth_calls = 1 /\ inflight = NoRequest)
    /\ (PastTokenChoice /\ result # Panic("Token::parse") /\ CachedUnusableAtStart)
         => auth_calls = 1

\* get_token returned Ok(token) to DNAC::new, which put it into the session
FreshTokenReturned ==
    /\ op = "DNAC::new" /\ auth_calls >= 1
    /\ pc \in {"verify_wait", "ready", "new_failed"}

\* C12 as stated: a fresh token obtained from the authentication endpoint is
\* in the token store when get_token returns it, so that a later session
\* establishment with the same token store (the same token_file) loads that
\* same token: save writes where load_token reads.
C12_Original ==
    FreshTokenReturned => load_token(fs, token_file) = Ok(token)

\* C12, the part the program keeps: when get_token returns a fresh token, the
\* file DNAC_TOKEN_FILE names holds that token, parsed expiry included; a
\* later load_token finds it when that file is the session's token_file.
C12_SavedBeforeReturn ==
    FreshTokenReturned
        => /\ is_some(env_token_file)
           /\ fs[env_token_file[1]] = TokenFile(token)
           /\ token.exp = Some(token.token.claim_exp[1])
           /\ env_token_file = Some(token_file) => load_token(fs, token_file) = Ok(token)


----------------------------------------------------------------------------
(* Claims about the version gate (checked under SpecSession).              *)

\* DNAC::new has ended on the answer to the release request, and the answer
\* was a release summary (one object, not the server-error status)
GateJudged ==
    /\ op = "DNAC::new" /\ pc \in {"ready", "new_failed"}
    /\ lastAnswer.sent /\ lastAnswer.status # INTERNAL_SERVER_ERROR
    /\ lastAnswer.body.shape = "item"

\* the installed-version string of that release summary
ReportedVersion == lastAnswer.body.items[1].installed_version

\* v = before \o allowed \o after, for some before and after
HasAllowedSubstring(v) ==
    \E allowed \in {<<"2", ".", "3", ".", "7", ".", "5">>,
                    <<"2", ".", "3", ".", "7", ".", "6">>} :
        \E i \in 0..Len(v), j \in 0..Len(v) :
            /\ i <= j
            /\ v = SubSeq(v, 1, i) \o allowed \o SubSeq(v, j + 1, Len(v))

\* C13: the version gate passes exactly when the installed-version string
\* contains "2.3.7.5" or "2.3.7.6" as a substring, so "2.3.7.5.1234" passes,
\* and it fails with the version error when the string contains neither.
C13_VersionGate ==
    GateJudged
        => /\ (pc = "ready" /\ result.tag = "Ok") <=> HasAllowedSubstring(ReportedVersion)
           /\ ReportedVersion = <<"2", ".", "3", ".", "7", ".", "5", ".", "1", "2", "3", "4">>
                => pc = "ready"
           /\ ~HasAllowedSubstring(ReportedVersion)
                => (pc = "new_failed" /\ result = Err(AnyhowMsg("Version not supported")))

\* the gate passed a version that holds "2.3.7.6" after a leading character
C13_Witness ==
    /\ GateJudged /\ pc = "ready"
    /\ ReportedVersion = <<"1", "2", ".", "3", ".", "7", ".", "6">>


----------------------------------------------------------------------------
(* Claims about the session as a whole (checked under Spec).               *)

\* the positions of DNAC::new before it returns
NewPcs == {"new", "new_valid", "new_valid_for", "auth_wait", "verify_wait"}

\* DNAC::new ended without returning a session
NoSession == op = "DNAC::new" /\ pc \in {"new_failed", "panicked"}

\* the release summary answered last names a supported version
GatePassed == GateJudged /\ HasAllowedSubstring(ReportedVersion)

GateStates ==
    /\ pc = "verify_wait"
         => /\ op = "DNAC::new"
            /\ token # DefaultToken /\ token.exp # None
            /\ inflight = GetRequest(ReleasePath, token.token.id, None)
    /\ (pc = "ready" /\ op = "DNAC::new") => (result = Ok(token) /\ GatePassed)
    /\ NoSession => (result.tag # "Ok" /\ inflight = NoRequest)
    /\ op # "DNAC::new" => pc \notin (NewPcs \cup {"new_failed"})

GateSteps ==
    /\ (pc' = "verify_wait" /\ pc # "verify_wait") => pc \in {"new_valid_for", "auth_wait"}
    /\ (pc = "verify_wait" /\ pc' # pc) => pc' \in {"ready", "new_failed"}
    /\ pc' \in NewPcs => pc \in NewPcs
    /\ ~NoSession
    /\ op' # op => (op = "DNAC::new" /\ pc = "ready" /\ result = Ok(token) /\ GatePassed)

\* C14: the version gate runs once, after the token is in the session and as
\* the last step of DNAC::new; when the gate or an earlier step fails no
\* session is returned and nothing runs afterwards, so every resource
\* operation starts on a session that passed the gate.
C14_GateIsLastStep == [](GateStates) /\ [][GateSteps]_vars

\* the gate refused an unsupported version: DNAC::new returned the error
C14_Witness ==
    /\ pc = "new_failed" /\ GateJudged
    /\ ReportedVersion = <<"2", ".", "3", ".", "5", ".", "3">>
    /\ token = FreshToken /\ auth_calls = 1


----------------------------------------------------------------------------
(* Claims about DNAC::get and DNAC::post (checked under SpecPoll).         *)

\* DNAC::post has returned; lastAnswer is the answer to its last request:
\* to the POST itself (polls = 0) or to the last status GET (polls >= 1)
PostReturned == op = "DNAC::post" /\ pc = "post_done" /\ lastAnswer # NoAnswer

HttpSuccess(status) == status \in 200..299

\* the program reads the body of the last answer: DNAC::get always does,
\* DNAC::post does when the poll flag is set
BodyIsRead == polls >= 1 \/ poll

\* a failure that is no ApiError: the transport's or the decoder's error
GenericFailure == result.tag = "Err" /\ result.val.kind = "reqwest"

\* C15 as stated: for get and post alike, an answer with status 500 comes
\* back as the typed ApiError with its error code, and an answer with any other
\* non-success status, or with a body that cannot be decoded, comes back as a
\* generic failure and never as success.
C15_Original ==
    (PostReturned /\ lastAnswer.sent)
        => /\ (lastAnswer.status = INTERNAL_SERVER_ERROR /\ lastAnswer.body.shape = "apierror")
                => result = Err([kind |-> "ApiError", info |-> lastAnswer.body.code,
                                 data |-> <<>>])
           /\ (lastAnswer.status # INTERNAL_SERVER_ERROR /\ ~HttpSuccess(lastAnswer.status))
                => GenericFailure
           /\ (lastAnswer.status = INTERNAL_SERVER_ERROR /\ lastAnswer.body.shape # "apierror")
                => GenericFailure
           /\ (lastAnswer.status # INTERNAL_SERVER_ERROR /\ BodyIsRead
                    /\ lastAnswer.body.shape \notin {"array", "item"})
                => GenericFailure

\* C15, the part the program keeps: status 500 is the only status looked at.
\* With it the body is decoded as ApiError (typed failure, or the decoder's
\* failure); with any other status, success or not, the body is decoded as
\* the expected response when it is read at all, and a write without polling
\* returns success without reading it.
C15_OnlyServerErrorIsLookedAt ==
    PostReturned
        => /\ ~lastAnswer.sent => result = Err(ReqwestError("send"))
           /\ (lastAnswer.sent /\ lastAnswer.status = INTERNAL_SERVER_ERROR)
                => result = IF lastAnswer.body.shape = "apierror"
                            THEN Err([kind |-> "ApiError", info |-> lastAnswer.body.code,
                                      data |-> <<>>])
                            ELSE Err(ReqwestError("decode"))
           /\ (lastAnswer.sent /\ lastAnswer.status # INTERNAL_SERVER_ERROR)
                => IF ~BodyIsRead THEN result = Ok(Unit)
                   ELSE IF lastAnswer.body.shape \notin {"array", "item"}
                   THEN result = Err(ReqwestError("decode"))
                   ELSE result.tag = "Ok" \/ result.val.kind = "anyhow"


----------------------------------------------------------------------------
(* Claims about the response envelope (checked under SpecList).            *)

\* a list operation has ended on an answer that holds an encoded single
\* item or an encoded sequence of items
EnvelopeDecoded ==
    /\ op \in ListOps /\ pc \in {"list_done", "panicked"}
    /\ lastAnswer.sent /\ lastAnswer.status # INTERNAL_SERVER_ERROR
    /\ lastAnswer.body.shape \in {"item", "array"}

\* the items that were encoded, as a sequence
Encoded == lastAnswer.body.items

LocationEntries(site) ==
    IF site.additional_info = None THEN {}
    ELSE {k \in DOMAIN site.additional_info[1] :
            site.additional_info[1][k].nameSpace = Some("Location")}

\* an additional_info entry without a nameSpace, or a "Location" entry
\* whose attributes are no Location
HasBadInfo(site) ==
    /\ site.additional_info # None
    /\ \E k \in DOMAIN site.additional_info[1] :
          \/ site.additional_info[1][k].nameSpace = None
          \/ /\ site.additional_info[1][k].nameSpace = Some("Location")
             /\ site.additional_info[1][k].attributes = None

\* the site with its location taken from its last "Location" entry
Located(site) ==
    IF LocationEntries(site) = {} THEN site
    ELSE LET last == CHOOSE k \in LocationEntries(site) :
                        \A j \in LocationEntries(site) : j <= k
         IN  [id |-> site.id,
              location |-> site.additional_info[1][last].attributes,
              additional_info |-> site.additional_info]

----------------------------------------------------------------------------
(* Claims about tasks that share the session (checked under SpecRefresh).  *)

\* the tasks whose authentication request is in flight
InFlight == {c \in Callers : callers[c].pc = "auth_wait"}

\* every task has its token: the session's, or the one get_token returned
AllServed == \A c \in Callers : callers[c].pc = "returned" /\ callers[c].result.tag = "Ok"

\* the authentication calls made since the session was established
RefreshCalls == auth_calls - 1

\* C17 as stated: when two callers find the token unusable at the same time
\* and both ask for a refresh, the authentication call is not duplicated (at
\* most one authentication request is in flight at a time) and both callers
\* end up with the same single token value, which is also the value in the
\* session and in the token store.
C17_Original ==
    /\ Cardinality(InFlight) <= 1
    /\ RefreshCalls <= 1
    /\ AllServed
         => \E t \in {callers[c].token : c \in Callers} :
               /\ \A c \in Callers : callers[c].result = Ok(t)
               /\ token = t
               /\ fs[token_file] = TokenFile(t)


----------------------------------------------------------------------------
(* Claims about the pace of task polling (checked under SpecPoll, in which  *)
(* the clock reads Epoch when DNAC::post is entered and only the sleep of   *)
(* poll_task advances it).                                                  *)

\* the delays that have elapsed since DNAC::post was entered
Delays == (now - Epoch) \div PollDelay

\* the status requests issued after the first one
RePolls == polls - 1

\* C19 as stated: after a tree that is not terminal the poller waits the
\* delay of 5 and only then issues one further status request, whose answer
\* is judged next: every further status request is preceded by its delay, and
\* no delay is taken once a terminal tree has been received.
C19_Original ==
    /\ (op = "DNAC::post" /\ pc = "poll_wait") => Delays >= RePolls
    /\ (op = "DNAC::post" /\ pc = "poll_sleep")
         => ~(IsTree(task) /\ TreeTerminal(task.items))

\* C19, the part the program keeps: a tree that is not terminal leads to
\* exactly one further status request, and one delay of 5 separates the
\* answer to that request from its evaluation (the request itself is sent
\* without a delay; the delay is taken whatever the answer says).
C19_PollThenSleep ==
    /\ (op = "DNAC::post" /\ pc \in {"poll_wait", "poll_sleep"})
         => (Delays = RePolls - 1 /\ now = Epoch + Delays * PollDelay)
    /\ (op = "DNAC::post" /\ pc = "poll_eval") => Delays = RePolls
    /\ (PollReturned /\ LastIsTree) => Delays = RePolls


\* the poller holds a tree with an unfinished task
Unfinished ==
    /\ op = "DNAC::post" /\ pc \in {"poll_eval", "poll_wait", "poll_sleep"}
    /\ IsTree(task) /\ ~TreeTerminal(task.items)

\* C20: task polling has no attempt limit: from a tree with an unfinished
\* task the poller never returns and always issues the next status request,
\* however many it has issued (up to the model's own cut-off MaxPolls); and
\* under fairness, when from some point on the poller holds no unfinished
\* tree (the endpoint answers with terminal trees, or a call has failed),
\* polling eventually returns.
C20_PollsUntilTerminal ==
    /\ []((Unfinished /\ pc = "poll_eval" /\ polls < MaxPolls)
            => (result = NoResult /\ ENABLED EvalRunning))
    /\ [][(Unfinished /\ pc = "poll_eval")
            => (pc' = "poll_wait" /\ polls' = polls + 1 /\ result' = NoResult)]_vars
    /\ (<>[](~Unfinished)) => <>(pc = "post_done")

\* after MaxPolls status requests, all but the last answered with an
\* unfinished tree, polling returned success
C20_Witness ==
    /\ PollReturned /\ polls = MaxPolls /\ Succeeded
    /\ Delays = MaxPolls - 1

----------------------------------------------------------------------------
(* Claims about the choice between the cached and a fresh token (checked   *)
(* under SpecSession).                                                     *)

\* DNAC::new has put a token into the session (dnac.token = token)
TokenChosen == op = "DNAC::new" /\ pc \in {"verify_wait", "ready", "new_failed"}

\* the token file gave a token whose expiry parsed
CachedParsed == is_some(loaded.exp)

\* the clock's reading when DNAC::new was entered
Entered == now - ticks

\* C21: session establishment keeps the cached token, without any
\* authentication call, exactly when the cached token loads, its expiry
\* parses and more than 600 seconds of its lifetime remain when the program
\* reads the clock (a reading between entry and now; with exactly 600 seconds
\* left the token is refreshed); in every other case that does not fail it
\* issues one authentication call and the session holds the token that call
\* returned.
C21_CachedOrFresh ==
    TokenChosen =>
        /\ auth_calls = 0
             => /\ CachedParsed /\ token = loaded
                /\ loaded.exp[1] - Entered > MinValidFor
                /\ lastAnswer = NoAnswer \/ pc # "verify_wait"
        /\ (CachedParsed /\ loaded.exp[1] - now > MinValidFor) => auth_calls = 0
        /\ auth_calls # 0
             => /\ auth_calls = 1
                /\ token.token \in FreshSecrets /\ token # loaded
                /\ token.exp = Some(token.token.claim_exp[1])
                /\ pc = "verify_wait"
                     => (lastAnswer.sent /\ lastAnswer.body = TokenBody(token.token))

\* a cached token with exactly 600 seconds left was loaded and parsed, and
\* the session holds a fresh token from the one authentication call
C21_Witness ==
    /\ TokenChosen /\ pc = "ready"
    /\ loaded.exp = Some(Entered + MinValidFor) /\ ticks = 0
    /\ auth_calls = 1 /\ token.token.id = "fresh"

\* the cached token had 601 seconds left and is the session's token
C21_WitnessCached ==
    /\ TokenChosen /\ pc = "ready"
    /\ loaded.exp = Some(Entered + MinValidFor + 1) /\ ticks = 0
    /\ auth_calls = 0 /\ token = loaded

----------------------------------------------------------------------------
(* Claims about the session in use (checked under SpecUse).                *)

\* an operation on the established session is running or has returned
InUse == op # "DNAC::new"

\* a request of a resource operation is in flight
RequestOut == InUse /\ inflight # NoRequest

\* the token's expiry has passed
Expired(t) == is_some(t.exp) /\ t.exp[1] <= now

\* C22: after establishment the session token is never written again: no
\* step of get, post, task polling or a fetch changes it, and every request
\* carries the token the session was established with in X-Auth-Token, also
\* when that token's expiry has passed.
C22_TokenFrozen ==
    /\ [](token = FreshToken)
    /\ [](RequestOut => inflight.token = FreshToken.token.id)
    /\ [][token' = token]_vars

\* the second page request of a fetch is in flight, at the very second the
\* session token expires, and carries that token
C22_Witness ==
    /\ RequestOut /\ op \in FetchOps /\ requests = 2
    /\ Expired(token) /\ now = token.exp[1]
    /\ inflight.token = token.token.id
----------------------------------------------------------------------------
(* Claims about the page requests of one fetch (checked under SpecFetch).  *)

\* a page request of the running fetch is in flight
PageRequestOut == op \in FetchOps /\ pc = "fetch_wait"

\* the offset and limit the k-th page request of a fetch is claimed to carry
KthPagination(k) == [offset |-> 1 + (k - 1) * Limit, limit |-> Limit]

\* this step issues a page request
IssuesPageRequest == requests' = requests + 1

\* C23: the page requests of one fetch are strictly sequential and their
\* offsets are 1, 1+L, 1+2L, ..: the k-th request carries offset 1+(k-1)L and
\* limit L = 500; a request is issued only when none is in flight, and every
\* request after the first only after the answer to the one before it was
\* received and held two or more items.
C23_SequentialPages ==
    /\ [](PageRequestOut => inflight.pagination = Some(KthPagination(requests)))
    /\ [][IssuesPageRequest
            => /\ inflight = NoRequest
               /\ inflight'.pagination = Some(KthPagination(requests + 1))
               /\ requests >= 1
                    => /\ lastAnswer # NoAnswer /\ lastAnswer.sent
                       /\ Len(lastAnswer.body.items) >= 2
                       /\ Len(lastPage) >= 2
                       /\ inflight'.pagination[1].offset
                            = KthPagination(requests).offset + Limit]_vars

\* the third page request of a fetch is in flight, with offset 1001
C23_Witness ==
    /\ PageRequestOut /\ requests = 3
    /\ inflight.pagination[1].offset = 1 + 2 * Limit
    /\ Len(devices) = 2 * Limit

\* how often an identifier occurs in a sequence of items
Occurrences(s, id) == Cardinality({i \in 1..Len(s) : s[i].id = id})

\* this step receives a page of two or more items
ReceivesBulkPage == op \in FetchOps /\ pc = "fetch_wait" /\ Len(lastPage') >= 2

\* this step receives a last page of exactly one item
ReceivesOneItem == op \in FetchOps /\ pc = "fetch_wait" /\ Len(lastPage') = 1

\* C24: the items of a page of two or more items are appended without any
\* identifier check, so an identifier the controller repeats within or
\* across such pages occurs in the result as often as it was served; only
\* the single item of a one-item last page is checked against the
\* accumulated items (and left out when its identifier is among them).
C24_BulkNotDeduplicated ==
    /\ [][ReceivesBulkPage
            => /\ devices' = devices \o lastPage'
               /\ \A k \in {1, Len(lastPage')} :
                    Occurrences(devices', lastPage'[k].id)
                      = Occurrences(devices, lastPage'[k].id)
                          + Occurrences(lastPage', lastPage'[k].id)]_vars
    /\ [][ReceivesOneItem
            => /\ Occurrences(devices, lastPage'[1].id) >= 1 => devices' = devices
               /\ Occurrences(devices, lastPage'[1].id) = 0
                    => devices' = Append(devices, lastPage'[1])
               /\ result' = Ok(devices')]_vars
    /\ [](FetchReturned /\ result.tag = "Ok" => result.val = devices)

\* a fetch returned a result that holds one identifier twice because it was
\* served twice in one page, and another twice because a page was repeated
C24_Witness ==
    /\ FetchReturned /\ result.tag = "Ok"
    /\ Len(result.val) >= 2 * Limit + 2
    /\ result.val[Limit + 1].id = result.val[Limit + 2].id
    /\ Occurrences(result.val, result.val[1].id) = 2

\* an answer that is a page of exactly one item, the item at the requested
\* offset, although the collection holds more items beyond that offset
OneItemMidCollection(answer, off) ==
    /\ answer.sent /\ answer.status = 200
    /\ answer.body.shape \in {"array", "item"}
    /\ Len(answer.body.items) = 1
    /\ answer.body.items[1] = CollItem(off)
    /\ off + 1 <= N

\* C25: when the controller answers a page request with exactly one item
\* although more items exist beyond that offset, the fetch ends at once and
\* successfully, with fewer than N items (the items up to that offset when
\* the earlier pages were the stable ones; in any case without the last
\* item of the collection), and nothing tells the caller of the shortfall:
\* the result is Ok and no error is logged.
C25_SilentUnderFetch ==
    /\ [][(op \in FetchOps /\ pc = "fetch_wait"
              /\ OneItemMidCollection(lastAnswer', offset))
            => (pc' = "fetch_done" /\ result'.tag = "Ok")]_vars
    /\ []((FetchReturned /\ OneItemMidCollection(lastAnswer, offset))
            => /\ result.tag = "Ok" /\ errlog = <<>>
               /\ Occurrences(result.val, CollItem(N).id) = 0
               /\ firstFault = requests
                    => /\ Len(result.val) = offset /\ Len(result.val) < N
                       /\ result.val = SubSeq(AllItems, 1, offset))

\* the second page of a 1200-item collection came back with one item only,
\* and the fetch returned 501 items as a success
C25_Witness ==
    /\ FetchReturned /\ OneItemMidCollection(lastAnswer, offset)
    /\ N = 1200 /\ requests = 2 /\ firstFault = 2
    /\ result.tag = "Ok" /\ Len(result.val) = Limit + 1
----------------------------------------------------------------------------
(* Claims about the errors of Sites::get_site (checked under SpecList).    *)

\* Sites::get_site has returned
SiteListReturned == op = "Sites::get_site" /\ pc = "list_done"

\* DNAC::get handed an ApiError with this code to its caller: the answer had
\* the server-error status and its body was an ApiError
TransportApiError(code) ==
    /\ lastAnswer.sent /\ lastAnswer.status = INTERNAL_SERVER_ERROR
    /\ lastAnswer.body.shape = "apierror" /\ lastAnswer.body.code = code

\* DNAC::get failed: nothing was sent, the answer had the server-error
\* status, or its body was not a response of sites
TransportFailed ==
    \/ ~lastAnswer.sent
    \/ lastAnswer.status = INTERNAL_SERVER_ERROR
    \/ lastAnswer.body.shape \notin {"array", "item"}

\* C26: Sites::get_site returns InvalidSite exactly when the transport
\* returned an ApiError whose error code is "NCGR10008"; an ApiError with
\* another code and every failure that is no ApiError come back as
\* GeneralError; no failure comes back as a successful list.
C26_InvalidSiteMapping ==
    SiteListReturned =>
        /\ (result = Err("InvalidSite")) <=> TransportApiError("NCGR10008")
        /\ (TransportFailed /\ ~TransportApiError("NCGR10008"))
              => result = Err("GeneralError")
        /\ TransportFailed <=> result.tag = "Err"

\* get_site returned GeneralError for an ApiError with another code
C26_Witness ==
    /\ SiteListReturned
    /\ TransportApiError("NCGR10000")
    /\ result = Err("GeneralError")
----------------------------------------------------------------------------
(* Claims about an empty task list (checked under SpecPoll).               *)

\* the status endpoint's last answer was an empty list of tasks
EmptyTreeAnswered ==
    /\ lastAnswer.sent /\ lastAnswer.status # INTERNAL_SERVER_ERROR
    /\ lastAnswer.body.shape = "array" /\ lastAnswer.body.items = <<>>

\* the poller is about to judge an empty list of tasks
HoldsEmptyTree ==
    op = "DNAC::post" /\ pc = "poll_eval" /\ task.variant = "Array" /\ task.items = <<>>

\* C27: a status response that holds an empty task list is terminal and
\* successful: the poller's next step on it is to return success, with no
\* further status request and no delay; when it is the answer to the first
\* status request, polling returns success after that one request with the
\* clock where it was on entry.
C27_EmptyTreeSucceeds ==
    /\ [][HoldsEmptyTree
            => /\ pc' = "post_done" /\ result' = Ok(Unit)
               /\ polls' = polls /\ now' = now /\ inflight' = NoRequest]_vars
    /\ []((op = "DNAC::post" /\ polls = 1 /\ EmptyTreeAnswered)
            => /\ pc \in {"poll_eval", "post_done"}
               /\ now = Epoch /\ inflight = NoRequest
               /\ pc = "post_done" => result = Ok(Unit))

\* polling returned success on an empty list, the answer to its first and
\* only status request, without a delay
C27_Witness ==
    /\ PollReturned /\ polls = 1 /\ EmptyTreeAnswered
    /\ result = Ok(Unit) /\ now = Epoch /\ errlog = <<>>

====
